---- MODULE Spec2Model ----
(***************************************************************************)
(* Model of ng2-cache's CacheService (src/src/services/cache.service.ts)   *)
(* on top of a CacheStorageAbstract backend                                *)
(* (src/src/services/storage/cache-storage-abstract.service.ts).           *)
(*                                                                         *)
(* JavaScript values are records [t, s, m]: t is "null", "scalar" or       *)
(* "map"; s names a scalar; m is the property list of an object, in        *)
(* insertion order (the order of for..in for non-numeric property names).  *)
(* The backend is a synchronous key/value map whose setItem always         *)
(* succeeds and whose getItem hands out a copy of what was stored (as a    *)
(* serialising storage does); time is Date.now() in milliseconds and       *)
(* advances by Tick.  The code is strict-mode code: creating a property on *)
(* a primitive is a TypeError.                                             *)
(***************************************************************************)
EXTENDS Integers, Sequences, FiniteSets, TLC

VARIABLES
    storage,    \* this._storage: the backend selected by the constructor
    supplied,   \* the backend passed to the constructor, NoStorage when none
    host,       \* which host storages are usable: [session, local]
    store,      \* the contents of the backend: storage key -> stored record
    now,        \* Date.now()
    lastOp,     \* the last call made on the service
    ret,        \* what that call returned
    cleared,    \* removeAll has been called and no set since
    lastSet,    \* per key, the last set made on it and whether it still stands
    journal     \* the sets made since the backend was last empty, while only sets were made

vars == <<storage, supplied, host, store, now, lastOp, ret, cleared, lastSet, journal>>

(***************************************************************************)
(* Program constants                                                       *)
(***************************************************************************)
CACHE_PREFIX == "CacheService"

\* CacheStoragesEnum
SESSION_STORAGE == "session"

LOCAL_STORAGE == "local"

MEMORY == "memory"

\* variant: the durable storage as the default
DEFAULT_STORAGE_local == LOCAL_STORAGE

DEFAULT_STORAGE == SESSION_STORAGE

DEFAULT_ENABLED_STORAGE == MEMORY

\* Number.MAX_VALUE: larger than every timestamp the clock reaches
MAX_VALUE == 2000000000

\* milliseconds per second, the factor applied to maxAge
MsPerSec == 1000

(***************************************************************************)
(* Bounds                                                                  *)
(***************************************************************************)
\* the clock stops advancing once it has reached MaxNow
MaxNow == 3000
\* tagged sets are issued while the tag's key list is shorter than MaxList
MaxList == 2

(***************************************************************************)
(* JavaScript values                                                       *)
(***************************************************************************)
Undef == -1

Null == [t |-> "null", s |-> "", m |-> <<>>]
Scalar(x) == [t |-> "scalar", s |-> x, m |-> <<>>]
Obj(m) == [t |-> "map", s |-> "", m |-> m]

FalsyScalars == {"false", "zero", "empty"}

\* ToBoolean of a value
Truthy(v) == \/ v.t = "map"
             \/ v.t = "scalar" /\ v.s \notin FalsyScalars

\* ToBoolean of a number or undefined
TruthyNum(n) == n # Undef /\ n # 0

\* a || {}
OrEmpty(v) == IF Truthy(v) THEN v ELSE Obj(<<>>)

\* the properties of an object; a primitive has none that matter here
Props(v) == IF v.t = "map" THEN v.m ELSE <<>>

\* index of property tag in property list m, 0 when absent
RECURSIVE PropIndex(_, _)
PropIndex(m, tag) ==
    IF m = <<>> THEN 0
    ELSE IF m[Len(m)].tag = tag /\ PropIndex(SubSeq(m, 1, Len(m) - 1), tag) = 0
         THEN Len(m)
         ELSE PropIndex(SubSeq(m, 1, Len(m) - 1), tag)

\* tags[tag] is truthy (an array, even an empty one, is truthy)
HasProp(m, tag) == PropIndex(m, tag) # 0

\* tags[tag]
PropGet(m, tag) == m[PropIndex(m, tag)].keys

\* tags[tag] = keys : in place for an existing property, appended otherwise
PropPut(m, tag, keys) ==
    IF HasProp(m, tag)
    THEN [m EXCEPT ![PropIndex(m, tag)] = [tag |-> tag, keys |-> keys]]
    ELSE Append(m, [tag |-> tag, keys |-> keys])

\* delete tags[tag]
PropDelete(m, tag) ==
    IF HasProp(m, tag)
    THEN SubSeq(m, 1, PropIndex(m, tag) - 1) \o SubSeq(m, PropIndex(m, tag) + 1, Len(m))
    ELSE m

\* Array.prototype.indexOf, 1-based, 0 for "not found" (-1 in the source)
RECURSIVE indexOf(_, _)
indexOf(list, x) ==
    IF list = <<>> THEN 0
    ELSE IF list[1] = x THEN 1
    ELSE IF indexOf(Tail(list), x) = 0 THEN 0
    ELSE 1 + indexOf(Tail(list), x)

\* Array.prototype.splice(index, 1)
splice1(list, index) == SubSeq(list, 1, index - 1) \o SubSeq(list, index + 1, Len(list))

(***************************************************************************)
(* Backend: CacheStorageAbstract                                           *)
(***************************************************************************)
hasItem(s, key) == key \in DOMAIN s

getItem(s, key) == s[key]

setItem(s, key, value) == [x \in (DOMAIN s) \cup {key} |-> IF x = key THEN value ELSE s[x]]

removeItem(s, key) == [x \in (DOMAIN s) \ {key} |-> s[x]]

clear(s) == [x \in {} |-> Null]

isEnabled(b) == b.enabled

(***************************************************************************)
(* Key namespacing                                                         *)
(***************************************************************************)
_toStorageKey(key) == CACHE_PREFIX \o key

\* position of the first occurrence of pat in str at or after i, 0 if none
RECURSIVE search(_, _, _)
search(str, pat, i) ==
    IF i + Len(pat) - 1 > Len(str) THEN 0
    ELSE IF SubSeq(str, i, i + Len(pat) - 1) = pat THEN i
    ELSE search(str, pat, i + 1)

\* String.prototype.replace(pat, '') with a string pattern: first occurrence only
replaceFirst(str, pat) ==
    IF search(str, pat, 1) = 0 THEN str
    ELSE SubSeq(str, 1, search(str, pat, 1) - 1)
         \o SubSeq(str, search(str, pat, 1) + Len(pat), Len(str))

_fromStorageKey(key) == replaceFirst(key, CACHE_PREFIX)

_tagsStorageKey == "CacheService_tags"

_isSystemKey(key) == key = _tagsStorageKey

(***************************************************************************)
(* CacheService                                                            *)
(***************************************************************************)
\* options as passed by a caller; expires/maxAge Undef and tag "" when not given
Options(expires, maxAge, tag) ==
    [given |-> TRUE, expires |-> expires, maxAge |-> maxAge, tag |-> tag]

\* the options argument left out
NoOptions == [given |-> FALSE, expires |-> Undef, maxAge |-> Undef, tag |-> ""]

_defaultOptions == Options(MAX_VALUE, MAX_VALUE, "")

_toStorageOptions(options, t) ==
    [expires |-> IF TruthyNum(options.expires) THEN options.expires
                 ELSE IF TruthyNum(options.maxAge) THEN t + (options.maxAge * MsPerSec)
                 ELSE _defaultOptions.expires,
     maxAge |-> IF TruthyNum(options.maxAge) THEN options.maxAge
                ELSE _defaultOptions.maxAge]

_toStorageValue(value, options, t) ==
    [value |-> value, options |-> _toStorageOptions(options, t)]

\* variant: a record is still valid at the instant it expires
_validateStorageValue_inclusive(value, t) == value.options.expires >= t

_validateStorageValue(value, t) == value.options.expires > t

\* index of the first property of m whose list contains key, scanning from i; 0 if none
RECURSIVE firstTagWith(_, _, _)
firstTagWith(m, key, i) ==
    IF i > Len(m) THEN 0
    ELSE IF indexOf(m[i].keys, key) # 0 THEN i
    ELSE firstTagWith(m, key, i + 1)

RECURSIVE removeItems(_, _)
removeItems(s, keys) ==
    IF keys = <<>> THEN s ELSE removeItems(removeItem(s, keys[1]), Tail(keys))

\* result[key] = data
ResultPut(result, key, data) ==
    IF \E i \in 1..Len(result) : result[i].key = key
    THEN [i \in 1..Len(result) |->
             IF result[i].key = key THEN [key |-> key, value |-> data] ELSE result[i]]
    ELSE Append(result, [key |-> key, value |-> data])

\* Every operation takes the backend contents s and the clock t and returns
\* the new contents, with its return value where it has one.  threw is TRUE
\* when the operation ended in a TypeError; calls lists, in order, the calls
\* of set that a set made in turn.
RECURSIVE set(_, _, _, _, _)
RECURSIVE get(_, _, _)
RECURSIVE remove(_, _, _)
RECURSIVE _removeFromTag(_, _, _)
RECURSIVE _saveTag(_, _, _, _)

\* variant: the nested set of the tag index is given the caller's options
set_inheritsOptions(s, key, value, options, t) ==
    LET storageKey == _toStorageKey(key)
        opts == IF options.given THEN options ELSE _defaultOptions
        s1 == setItem(s, storageKey, _toStorageValue(value, opts, t))
        index == _toStorageKey(_tagsStorageKey)
    IN  IF ~_isSystemKey(key) /\ opts.tag # ""
        THEN LET r == _saveTag(s1, opts.tag, storageKey, t)
             IN  IF r.threw THEN r
                 ELSE [r EXCEPT !.store = setItem(r.store, index,
                                              _toStorageValue(getItem(r.store, index).value, opts, t))]
        ELSE [store |-> s1, threw |-> FALSE, calls |-> <<>>]

set(s, key, value, options, t) ==
    LET storageKey == _toStorageKey(key)
        opts == IF options.given THEN options ELSE _defaultOptions
        s1 == setItem(s, storageKey, _toStorageValue(value, opts, t))
    IN  IF ~_isSystemKey(key) /\ opts.tag # ""
        THEN _saveTag(s1, opts.tag, storageKey, t)
        ELSE [store |-> s1, threw |-> FALSE, calls |-> <<>>]

\* variant: the truthiness test applied to the cached value as well
get_truthyOnly(s, key, t) ==
    LET storageKey == _toStorageKey(key)
    IN  IF ~hasItem(s, storageKey) THEN [store |-> s, value |-> Null]
        ELSE IF _validateStorageValue(getItem(s, storageKey), t)
             THEN [store |-> s,
                   value |-> IF Truthy(getItem(s, storageKey).value)
                             THEN getItem(s, storageKey).value ELSE Null]
             ELSE [store |-> remove(s, key, t), value |-> Null]

\* variant: an expired record is reported absent but left in place
get_keepsExpired(s, key, t) ==
    LET storageKey == _toStorageKey(key)
    IN  IF hasItem(s, storageKey) /\ _validateStorageValue(getItem(s, storageKey), t)
        THEN [store |-> s, value |-> getItem(s, storageKey).value]
        ELSE [store |-> s, value |-> Null]

\* variant: a read writes the record it found back, with the default options
get_writesBack(s, key, t) ==
    LET storageKey == _toStorageKey(key)
    IN  IF ~hasItem(s, storageKey) THEN [store |-> s, value |-> Null]
        ELSE IF _validateStorageValue(getItem(s, storageKey), t)
             THEN [store |-> setItem(s, storageKey,
                                     _toStorageValue(getItem(s, storageKey).value,
                                                     _defaultOptions, t)),
                   value |-> getItem(s, storageKey).value]
             ELSE [store |-> remove(s, key, t), value |-> Null]

get(s, key, t) ==
    LET storageKey == _toStorageKey(key)
    IN  IF ~hasItem(s, storageKey) THEN [store |-> s, value |-> Null]
        ELSE IF _validateStorageValue(getItem(s, storageKey), t)
             THEN [store |-> s, value |-> getItem(s, storageKey).value]
             ELSE [store |-> remove(s, key, t), value |-> Null]

\* variant: exists tests for a value, not for a truthy one
exists_present(s, key, t) ==
    LET g == get(s, key, t) IN [store |-> g.store, value |-> g.value # Null]

exists(s, key, t) ==
    LET g == get(s, key, t) IN [store |-> g.store, value |-> Truthy(g.value)]

remove(s, key, t) ==
    _removeFromTag(removeItem(s, _toStorageKey(key)), _toStorageKey(key), t)

\* variant: only the caller's records are dropped, the tag index is kept
removeAll_keepsIndex(s) ==
    [x \in (DOMAIN s) \cap {_toStorageKey(_tagsStorageKey)} |-> s[x]]

removeAll(s) == clear(s)

\* variant: the scan goes on after the first tag that lists the key
_removeFromTag_everyTag(s, key, t) ==
    LET g == get(s, _tagsStorageKey, t)
        tags == Props(OrEmpty(g.value))
    IN  IF firstTagWith(tags, key, 1) = 0 THEN g.store
        ELSE set(g.store, _tagsStorageKey,
                 Obj([i \in 1..Len(tags) |->
                        IF indexOf(tags[i].keys, key) = 0 THEN tags[i]
                        ELSE [tags[i] EXCEPT !.keys = splice1(@, indexOf(@, key))]]),
                 NoOptions, t).store

_removeFromTag(s, key, t) ==
    LET g == get(s, _tagsStorageKey, t)
        tags == Props(OrEmpty(g.value))
        i == firstTagWith(tags, key, 1)
    IN  IF i = 0 THEN g.store
        ELSE set(g.store, _tagsStorageKey,
                 Obj([tags EXCEPT ![i].keys = splice1(tags[i].keys, indexOf(tags[i].keys, key))]),
                 NoOptions, t).store

\* this.set(key, value) called from inside a set: the call is recorded
Nested(r, key) == [r EXCEPT !.calls = <<[key |-> key, options |-> NoOptions]>> \o @]

\* tags[tag] = [key] on a truthy primitive is a TypeError in strict code
_saveTag(s, tag, key, t) ==
    LET g == get(s, _tagsStorageKey, t)
        tags == OrEmpty(g.value)
    IN  IF tags.t # "map" THEN [store |-> g.store, threw |-> TRUE, calls |-> <<>>]
        ELSE IF ~HasProp(tags.m, tag)
             THEN Nested(set(g.store, _tagsStorageKey, Obj(PropPut(tags.m, tag, <<key>>)),
                             NoOptions, t),
                         _tagsStorageKey)
             ELSE Nested(set(g.store, _tagsStorageKey,
                             Obj(PropPut(tags.m, tag, Append(PropGet(tags.m, tag), key))),
                             NoOptions, t),
                         _tagsStorageKey)

\* variant: the listed records are read from the backend without validation
RECURSIVE collectTagData_raw(_, _, _, _)
collectTagData_raw(s, keys, result, t) ==
    IF keys = <<>> THEN [store |-> s, value |-> result]
    ELSE LET data == IF hasItem(s, keys[1]) THEN getItem(s, keys[1]).value ELSE Null
         IN  collectTagData_raw(s, Tail(keys),
                                IF Truthy(data)
                                THEN ResultPut(result, _fromStorageKey(keys[1]), data)
                                ELSE result,
                                t)

\* the forEach of getTagData over the listed keys
RECURSIVE collectTagData(_, _, _, _)
collectTagData(s, keys, result, t) ==
    IF keys = <<>> THEN [store |-> s, value |-> result]
    ELSE LET data == get(s, _fromStorageKey(keys[1]), t)
         IN  collectTagData(data.store, Tail(keys),
                            IF Truthy(data.value)
                            THEN ResultPut(result, _fromStorageKey(keys[1]), data.value)
                            ELSE result,
                            t)

getTagData(s, tag, t) ==
    LET g == get(s, _tagsStorageKey, t)
        tags == Props(OrEmpty(g.value))
    IN  IF HasProp(tags, tag)
        THEN collectTagData(g.store, PropGet(tags, tag), <<>>, t)
        ELSE [store |-> g.store, value |-> <<>>]

\* variant: the tag is dropped from the index but its records stay
removeTag_indexOnly(s, tag, t) ==
    LET g == get(s, _tagsStorageKey, t)
        tags == Props(OrEmpty(g.value))
    IN  IF HasProp(tags, tag)
        THEN set(g.store, _tagsStorageKey, Obj(PropDelete(tags, tag)), NoOptions, t).store
        ELSE g.store

removeTag(s, tag, t) ==
    LET g == get(s, _tagsStorageKey, t)
        tags == Props(OrEmpty(g.value))
    IN  IF HasProp(tags, tag)
        THEN set(removeItems(g.store, PropGet(tags, tag)), _tagsStorageKey,
                 Obj(PropDelete(tags, tag)), NoOptions, t).store
        ELSE g.store

\* the constructor's backend selection
\* h tells which host storages are usable; the memory storage always is
_initStorage(type, h) ==
    IF type = SESSION_STORAGE THEN [type |-> SESSION_STORAGE, enabled |-> h.session]
    ELSE IF type = LOCAL_STORAGE THEN [type |-> LOCAL_STORAGE, enabled |-> h.local]
    ELSE [type |-> MEMORY, enabled |-> TRUE]

\* no backend injected
NoStorage == [type |-> "none", enabled |-> FALSE]

\* variant: a disabled injected backend falls back to the default first
_validateStorage_cascade(arg, h) ==
    LET s1 == IF arg = NoStorage \/ ~isEnabled(arg) THEN _initStorage(DEFAULT_STORAGE, h) ELSE arg
    IN  IF ~isEnabled(s1) THEN _initStorage(DEFAULT_ENABLED_STORAGE, h) ELSE s1

_validateStorage(arg, h) ==
    LET s1 == IF arg = NoStorage THEN _initStorage(DEFAULT_STORAGE, h) ELSE arg
    IN  IF ~isEnabled(s1) THEN _initStorage(DEFAULT_ENABLED_STORAGE, h) ELSE s1

(***************************************************************************)
(* Inputs                                                                  *)
(***************************************************************************)
Keys == {"a", "CacheServiceb", _tagsStorageKey}

\* every key a caller uses in some specification
AllKeys == Keys \cup {"_tags"}

Values == {Scalar("zero"), Scalar("one")}

Tags == {"g", "h"}

\* options that carry at most a tag
TagOptions == {NoOptions} \cup {Options(Undef, Undef, tg) : tg \in Tags}

\* inputs of the specification that exercises expiration
ExpKeys == {"a"}

ExpTags == {"g"}

ExpiresInputs == {Undef, 0, 2 * MsPerSec}

MaxAgeInputs == {Undef, 0, 1}

ExpOptions ==
    {NoOptions} \cup
    {Options(e, m, tg) : e \in ExpiresInputs, m \in MaxAgeInputs, tg \in ExpTags \cup {""}}

\* inputs of the specification that exercises construction
CtorKeys == {"a"}

\* one key that expires a second after it is set, under either tag or none
LazyKeys == {"a"}

LazyOptions == {Options(Undef, 1, tg) : tg \in {""} \cup Tags}

\* the reserved key in the hands of the caller, next to the key whose storage
\* key is the reserved key's text
SharedKeys == {"a", "_tags", _tagsStorageKey}

SharedTags == {"g"}

SharedOptions ==
    {NoOptions} \cup ({Options(Undef, ma, tg) : ma \in {Undef, 1}, tg \in {""} \cup SharedTags}
                       \ {Options(Undef, Undef, "")})

Hosts == [session : BOOLEAN, local : BOOLEAN]

\* the backends a caller can inject on host h
Injectable(h) ==
    {NoStorage} \cup {_initStorage(ty, h) : ty \in {SESSION_STORAGE, LOCAL_STORAGE, MEMORY}}

(***************************************************************************)
(* Bookkeeping of calls                                                    *)
(***************************************************************************)
NoRet == [value |-> Null, bool |-> FALSE, data |-> <<>>]

NoSet == [kind |-> "none", due |-> Undef, maxAge |-> Undef, value |-> Null, stands |-> FALSE,
          tag |-> "", sole |-> "none"]

\* a call.  fresh is TRUE for a get that directly follows a set of the same
\* key without options, and expect is then the value that set stored; prior
\* is what lastSet held for the key when a get or exists was called; index is
\* the tag index as it was when a remove, removeTag or removeAll was called;
\* calls are the nested calls a set made; before is the backend contents as
\* they were when a get, exists or getTagData was called
Call(op, key, value, options, tag) ==
    [op |-> op, key |-> key, value |-> value, options |-> options, tag |-> tag,
     threw |-> FALSE, fresh |-> FALSE, expect |-> Null, prior |-> NoSet, index |-> <<>>,
     calls |-> <<>>, before |-> <<>>]

\* the tag index as currently stored, <<>> when absent or not an object
TagIndex(s) ==
    IF hasItem(s, _toStorageKey(_tagsStorageKey))
    THEN Props(getItem(s, _toStorageKey(_tagsStorageKey)).value)
    ELSE <<>>

\* the list stored for tag, <<>> when the tag is unknown
Listed(s, tag) == IF HasProp(TagIndex(s), tag) THEN PropGet(TagIndex(s), tag) ELSE <<>>

\* what the caller's set(k, v, o) at time t asks for: the kind of expiration
\* given, the time it is due, the value, the tag; sole is the one tag every
\* set of k has carried so far (old is the record of the sets before), "many"
\* when they carried different tags or none
SetRecord(k, v, o, t, old) ==
    [kind |-> IF o.given /\ o.expires # Undef /\ o.maxAge # Undef THEN "both"
              ELSE IF o.given /\ o.expires # Undef THEN "expires"
              ELSE IF o.given /\ o.maxAge # Undef THEN "maxAge"
              ELSE "never",
     due |-> IF o.given /\ o.expires # Undef THEN o.expires
             ELSE IF o.given /\ o.maxAge # Undef THEN t + o.maxAge * MsPerSec
             ELSE MAX_VALUE,
     maxAge |-> IF o.given THEN o.maxAge ELSE Undef,
     value |-> v,
     stands |-> TRUE,
     tag |-> IF o.given THEN o.tag ELSE "",
     sole |-> IF o.given /\ o.tag # "" /\ old.sole \in {"none", o.tag} THEN o.tag ELSE "many"]

Same(s1, s2, sk) ==
    /\ hasItem(s1, sk) = hasItem(s2, sk)
    /\ hasItem(s1, sk) => getItem(s1, sk) = getItem(s2, sk)

\* lastSet after a step from contents s to s2 that is not a set by the caller:
\* a record the service itself rewrote with set (the tag index) is forgotten,
\* a record that was removed no longer stands
Withdraw(ls, s, s2) ==
    [k \in AllKeys |-> IF Same(s, s2, _toStorageKey(k)) THEN ls[k]
                    ELSE IF hasItem(s2, _toStorageKey(k)) THEN NoSet
                    ELSE [ls[k] EXCEPT !.stands = FALSE]]

\* history kept by the specification that exercises expiration
Tracked ==
    /\ lastSet' = Withdraw(lastSet, store, store')
    /\ UNCHANGED journal

TrackedSet(k, v, o) ==
    /\ lastSet' = [Withdraw(lastSet, store, store') EXCEPT ![k] = SetRecord(k, v, o, now, lastSet[k])]
    /\ UNCHANGED journal

\* the journal of a cache on which something else than a set changed the backend
Lost == [lost |-> TRUE, calls |-> <<>>]

Fresh == [lost |-> FALSE, calls |-> <<>>]

\* history kept by the specification that exercises tags: the first two sets
\* made on an empty backend, forgotten when any other call changes the backend
\* or a third set is made
Journaled ==
    /\ journal' = IF store' = store THEN journal ELSE Lost
    /\ UNCHANGED lastSet

JournaledSet(k, v, o) ==
    /\ journal' = IF ~journal.lost /\ Len(journal.calls) < 2
                  THEN [journal EXCEPT !.calls = Append(@, [key |-> k, value |-> v, options |-> o])]
                  ELSE Lost
    /\ UNCHANGED lastSet

JournaledClear ==
    /\ journal' = Fresh
    /\ UNCHANGED lastSet

Untracked == UNCHANGED <<lastSet, journal>>

(***************************************************************************)
(* Actions                                                                 *)
(***************************************************************************)
Frame == UNCHANGED <<storage, supplied, host>>

Set(k, v, o) ==
    /\ o.tag # "" => Len(Listed(store, o.tag)) < MaxList
    /\ LET r == set(store, k, v, o, now)
       IN  /\ store' = r.store
           /\ lastOp' = [Call("set", k, v, o, "") EXCEPT !.threw = r.threw, !.calls = r.calls]
    /\ ret' = NoRet
    /\ cleared' = FALSE
    /\ UNCHANGED now
    /\ Frame

Get(k) ==
    /\ LET r == get(store, k, now)
       IN  /\ store' = r.store
           /\ ret' = [NoRet EXCEPT !.value = r.value]
    /\ lastOp' = [Call("get", k, Null, NoOptions, "") EXCEPT
                    !.fresh = (lastOp.op = "set" /\ lastOp.key = k /\ ~lastOp.options.given),
                    !.expect = IF lastOp.op = "set" /\ lastOp.key = k /\ ~lastOp.options.given
                               THEN lastOp.value ELSE Null,
                    !.prior = lastSet[k],
                    !.before = store]
    /\ UNCHANGED <<now, cleared>>
    /\ Frame

Exists(k) ==
    /\ LET r == exists(store, k, now)
       IN  /\ store' = r.store
           /\ ret' = [NoRet EXCEPT !.bool = r.value]
    /\ lastOp' = [Call("exists", k, Null, NoOptions, "") EXCEPT !.prior = lastSet[k], !.before = store]
    /\ UNCHANGED <<now, cleared>>
    /\ Frame

Remove(k) ==
    /\ store' = remove(store, k, now)
    /\ lastOp' = [Call("remove", k, Null, NoOptions, "") EXCEPT !.index = TagIndex(store)]
    /\ ret' = NoRet
    /\ UNCHANGED <<now, cleared>>
    /\ Frame

RemoveAll ==
    /\ store' = removeAll(store)
    /\ lastOp' = [Call("removeAll", "", Null, NoOptions, "") EXCEPT !.index = TagIndex(store)]
    /\ ret' = NoRet
    /\ cleared' = TRUE
    /\ UNCHANGED now
    /\ Frame

GetTagData(tg) ==
    /\ LET r == getTagData(store, tg, now)
       IN  /\ store' = r.store
           /\ ret' = [NoRet EXCEPT !.data = r.value]
    /\ lastOp' = [Call("getTagData", "", Null, NoOptions, tg) EXCEPT !.before = store]
    /\ UNCHANGED <<now, cleared>>
    /\ Frame

RemoveTag(tg) ==
    /\ store' = removeTag(store, tg, now)
    /\ lastOp' = [Call("removeTag", "", Null, NoOptions, tg) EXCEPT !.index = TagIndex(store)]
    /\ ret' = NoRet
    /\ UNCHANGED <<now, cleared>>
    /\ Frame

\* one second passes between two calls
Tick ==
    /\ now < MaxNow
    /\ now' = now + MsPerSec
    /\ lastOp' = Call("tick", "", Null, NoOptions, "")
    /\ ret' = NoRet
    /\ UNCHANGED <<store, cleared, lastSet, journal>>
    /\ Frame

(***************************************************************************)
(* Specifications                                                          *)
(***************************************************************************)
\* the state after new CacheService(arg) on host h
Constructed(arg, h) ==
    /\ host = h
    /\ supplied = arg
    /\ storage = _validateStorage(arg, h)
    /\ store = [x \in {} |-> Null]
    /\ now = MsPerSec
    /\ lastOp = Call("new", "", Null, NoOptions, "")
    /\ ret = NoRet
    /\ cleared = FALSE
    /\ lastSet = [k \in AllKeys |-> NoSet]
    /\ journal = Fresh

\* Tags and bulk operations, entries that never expire
Init == Constructed(NoStorage, [session |-> TRUE, local |-> TRUE])

Next ==
    \/ \E k \in Keys, v \in Values, o \in TagOptions : Set(k, v, o) /\ JournaledSet(k, v, o)
    \/ \E k \in Keys : Get(k) /\ Journaled
    \/ \E k \in Keys : Exists(k) /\ Journaled
    \/ \E k \in Keys : Remove(k) /\ Journaled
    \/ RemoveAll /\ JournaledClear
    \/ \E tg \in Tags : GetTagData(tg) /\ Journaled
    \/ \E tg \in Tags : RemoveTag(tg) /\ Journaled

Spec == Init /\ [][Next]_vars

\* Expiration: every combination of expires and maxAge, and a clock
NextExpiry ==
    \/ \E k \in ExpKeys, v \in Values, o \in ExpOptions : Set(k, v, o) /\ TrackedSet(k, v, o)
    \/ \E k \in ExpKeys : Get(k) /\ Tracked
    \/ \E k \in ExpKeys : Exists(k) /\ Tracked
    \/ \E k \in ExpKeys : Remove(k) /\ Tracked
    \/ RemoveAll /\ Tracked
    \/ \E tg \in ExpTags : GetTagData(tg) /\ Tracked
    \/ \E tg \in ExpTags : RemoveTag(tg) /\ Tracked
    \/ Tick

SpecExpiry == Init /\ [][NextExpiry]_vars

\* Construction: every host and every injected backend
InitCtor == \E h \in Hosts : \E arg \in Injectable(h) : Constructed(arg, h)

NextCtor ==
    \/ \E k \in CtorKeys, v \in Values : Set(k, v, NoOptions) /\ Untracked
    \/ \E k \in CtorKeys : Get(k) /\ Untracked
    \/ \E k \in CtorKeys : Exists(k) /\ Untracked
    \/ \E k \in CtorKeys : Remove(k) /\ Untracked
    \/ RemoveAll /\ Untracked

SpecCtor == InitCtor /\ [][NextCtor]_vars

\* Lazy deletion: short-lived entries under two tags
NextLazy ==
    \/ \E k \in LazyKeys, v \in Values, o \in LazyOptions : Set(k, v, o) /\ Untracked
    \/ \E k \in LazyKeys : Get(k) /\ Untracked
    \/ \E k \in LazyKeys : Exists(k) /\ Untracked
    \/ \E k \in LazyKeys : Remove(k) /\ Untracked
    \/ RemoveAll /\ Untracked
    \/ \E tg \in Tags : GetTagData(tg) /\ Untracked
    \/ \E tg \in Tags : RemoveTag(tg) /\ Untracked
    \/ Tick

SpecLazy == Init /\ [][NextLazy]_vars

\* The reserved key used as a caller's key, with entries that expire
NextShared ==
    \/ \E k \in SharedKeys, v \in Values, o \in SharedOptions : Set(k, v, o) /\ Untracked
    \/ \E k \in SharedKeys : Get(k) /\ Untracked
    \/ \E k \in SharedKeys : Exists(k) /\ Untracked
    \/ \E k \in SharedKeys : Remove(k) /\ Untracked
    \/ RemoveAll /\ Untracked
    \/ \E tg \in SharedTags : GetTagData(tg) /\ Untracked
    \/ \E tg \in SharedTags : RemoveTag(tg) /\ Untracked
    \/ Tick

SpecShared == Init /\ [][NextShared]_vars

(***************************************************************************)
(* Properties                                                              *)
(***************************************************************************)
Range(f) == {f[i] : i \in DOMAIN f}

\* the stored record of caller key k
Stored(k) == getItem(store, _toStorageKey(k))

\* C1 (round trip): a get(k) that directly follows set(k, v) without options
\* returns v, whatever k and v (a falsy v included) and whatever the state
\* the set was made in.
RoundTrip == (lastOp.op = "get" /\ lastOp.fresh) => ret.value = lastOp.expect

\* a falsy value has made the round trip under a key that was tagged before
RoundTripWitness ==
    /\ lastOp.op = "get" /\ lastOp.fresh
    /\ lastOp.expect = Scalar("zero")
    /\ ret.value = Scalar("zero")
    /\ \E tg \in Tags : _toStorageKey(lastOp.key) \in Range(Listed(store, tg))

\* C2 (expiration by maxAge): once set(k, v, {maxAge: m}) with m > 0 and no
\* expires has been made at t0, and as long as no set(k) follows, a get(k) at a
\* time >= t0 + m*1000 returns absent and an exists(k) at such a time is false.
MaxAgeExpiry ==
    (/\ lastOp.op \in {"get", "exists"}
     /\ lastOp.prior.kind = "maxAge"
     /\ lastOp.prior.maxAge > 0
     /\ now >= lastOp.prior.due)
    => (ret.value = Null /\ ret.bool = FALSE)

\* a get made exactly when the maxAge ran out found the record and dropped it
MaxAgeExpiryWitness ==
    /\ lastOp.op = "get"
    /\ lastOp.prior.kind = "maxAge"
    /\ lastOp.prior.maxAge > 0
    /\ lastOp.prior.stands
    /\ now = lastOp.prior.due
    /\ ret.value = Null
    /\ ~hasItem(store, _toStorageKey(lastOp.key))

\* C3 (absolute over relative), as claimed: after set(k, v, {expires: T,
\* maxAge: m}) and no later write to k, get(k) returns v before T and absent
\* from T on.
AbsoluteOverRelative ==
    (lastOp.op = "get" /\ lastOp.prior.kind = "both")
    => /\ (now < lastOp.prior.due /\ lastOp.prior.stands) => ret.value = lastOp.prior.value
       /\ now >= lastOp.prior.due => ret.value = Null

\* C4 (expiration resolution), as claimed: the record a set stores expires at
\* options.expires when expires is given, else at now + maxAge*1000 when
\* maxAge is given, else never.
ExpirationResolution ==
    lastOp.op = "set"
    => /\ hasItem(store, _toStorageKey(lastOp.key))
       /\ Stored(lastOp.key).options.expires =
            IF lastOp.options.given /\ lastOp.options.expires # Undef
            THEN lastOp.options.expires
            ELSE IF lastOp.options.given /\ lastOp.options.maxAge # Undef
                 THEN now + lastOp.options.maxAge * MsPerSec
                 ELSE MAX_VALUE

\* C5 (tag grouping), as claimed: when set(a, va, {tag: g}) and
\* set(b, vb, {tag: g}) are the two calls made on an empty cache, getTagData(g)
\* returns exactly {a: va, b: vb}, for all distinct caller keys a, b (one of
\* them containing the prefix text) and all values va, vb.
TagGrouping ==
    \A a \in Keys, b \in Keys, va \in Values, vb \in Values :
        (/\ a # b /\ ~_isSystemKey(a) /\ ~_isSystemKey(b)
         /\ lastOp.op = "getTagData"
         /\ ~journal.lost
         /\ journal.calls = <<[key |-> a, value |-> va, options |-> Options(Undef, Undef, lastOp.tag)],
                              [key |-> b, value |-> vb, options |-> Options(Undef, Undef, lastOp.tag)]>>)
        => /\ Len(ret.data) = 2
           /\ Range(ret.data) = {[key |-> a, value |-> va], [key |-> b, value |-> vb]}

\* C6 (tag removal): after removeTag(g) called with g known in the tag index,
\* get(k) is absent for every key k that was listed under g, g is no longer a
\* property of the index, and getTagData(g) returns an empty mapping.
TagRemoval ==
    (lastOp.op = "removeTag" /\ HasProp(lastOp.index, lastOp.tag))
    => /\ \A k \in Keys :
            _toStorageKey(k) \in Range(PropGet(lastOp.index, lastOp.tag))
            => get(store, k, now).value = Null
       /\ ~HasProp(TagIndex(store), lastOp.tag)
       /\ getTagData(store, lastOp.tag, now).value = <<>>

\* removeTag dropped a tag that listed two different keys and left another tag
TagRemovalWitness ==
    /\ lastOp.op = "removeTag"
    /\ HasProp(lastOp.index, lastOp.tag)
    /\ Cardinality(Range(PropGet(lastOp.index, lastOp.tag))) = 2
    /\ Len(lastOp.index) = 2
    /\ Len(TagIndex(store)) = 1

\* C7 (global clear): from removeAll until the next set the backend is empty,
\* get(k) is absent for every key and getTagData(t) is empty for every tag.
GlobalClear ==
    cleared
    => /\ DOMAIN store = {}
       /\ \A k \in Keys : get(store, k, now).value = Null
       /\ \A tg \in Tags : getTagData(store, tg, now).value = <<>>

\* removeAll was called on a cache that held tagged entries
GlobalClearWitness ==
    /\ cleared
    /\ lastOp.op = "removeAll"
    /\ Len(lastOp.index) = 2
    /\ \E i \in 1..2 : Len(lastOp.index[i].keys) = 2

\* the positions of index m whose list contains storage key sk
Holders(m, sk) == {j \in 1..Len(m) : sk \in Range(m[j].keys)}

Least(S) == CHOOSE x \in S : \A y \in S : x <= y

\* list is old without its element at position p
Without(list, old, p) ==
    /\ Len(list) = Len(old) - 1
    /\ \A q \in 1..Len(list) : list[q] = IF q < p THEN old[q] ELSE old[q + 1]

\* C8 (single-tag scavenge): remove(k) on a key listed under two tags deletes
\* the first occurrence of its storage key from the first tag that lists it,
\* leaves every other list as it was, and so leaves k listed under the other tag.
SingleTagScavenge ==
    LET m == lastOp.index
        sk == _toStorageKey(lastOp.key)
        m2 == TagIndex(store)
    IN  (lastOp.op = "remove" /\ Cardinality(Holders(m, sk)) >= 2)
        => LET i == Least(Holders(m, sk))
               p == Least({q \in 1..Len(m[i].keys) : m[i].keys[q] = sk})
           IN  /\ Len(m2) = Len(m)
               /\ \A j \in 1..Len(m) : m2[j].tag = m[j].tag
               /\ \A j \in 1..Len(m) : j # i => m2[j].keys = m[j].keys
               /\ Without(m2[i].keys, m[i].keys, p)
               /\ \E j \in 1..Len(m) : j # i /\ sk \in Range(m2[j].keys)

\* remove acted on a key that both tags listed, the first of them twice
SingleTagScavengeWitness ==
    /\ lastOp.op = "remove"
    /\ Cardinality(Holders(lastOp.index, _toStorageKey(lastOp.key))) = 2
    /\ lastOp.index[1].keys = <<_toStorageKey(lastOp.key), _toStorageKey(lastOp.key)>>
    /\ TagIndex(store)[1].keys = <<_toStorageKey(lastOp.key)>>
    /\ _toStorageKey(lastOp.key) \in Range(TagIndex(store)[2].keys)

\* C9 (fallback selection): a service constructed with a backend that reports
\* isEnabled() false uses the in-memory backend in every later state, whether
\* or not the session storage is usable.
FallbackSelection ==
    (supplied # NoStorage /\ ~isEnabled(supplied)) => storage.type = MEMORY

\* a disabled backend was injected on a host whose session storage works, and
\* calls were served afterwards
FallbackSelectionWitness ==
    /\ supplied # NoStorage /\ ~isEnabled(supplied)
    /\ host.session
    /\ storage.type = MEMORY
    /\ lastOp.op = "get" /\ ret.value # Null

\* C10 (fallback order), as claimed: without a backend, or with one that
\* reports disabled, the session backend is selected if it is enabled and the
\* in-memory one only if it is not; an enabled supplied backend is kept.
FallbackOrder ==
    /\ (supplied = NoStorage \/ ~isEnabled(supplied))
       => storage.type = IF host.session THEN SESSION_STORAGE ELSE MEMORY
    /\ (supplied # NoStorage /\ isEnabled(supplied)) => storage = supplied

\* C10, amended: without a backend, the session backend is selected if it is
\* enabled and the in-memory one only if it is not; with a backend that
\* reports disabled, the in-memory backend is selected without trying the
\* session backend; an enabled supplied backend is kept.
FallbackOrderAmended ==
    /\ supplied = NoStorage
       => storage.type = IF host.session THEN SESSION_STORAGE ELSE MEMORY
    /\ (supplied # NoStorage /\ ~isEnabled(supplied)) => storage.type = MEMORY
    /\ (supplied # NoStorage /\ isEnabled(supplied)) => storage = supplied

\* no backend was injected, the session storage works and serves the calls
FallbackOrderWitness ==
    /\ supplied = NoStorage
    /\ host.session
    /\ storage.type = SESSION_STORAGE
    /\ lastOp.op = "set"

\* C11 (exists): exists(k) is true exactly when get(k), called in the state
\* exists(k) was called in, returns a truthy value; for an unexpired entry
\* whose value is falsy get(k) returns that value and exists(k) is false.
ExistsSemantics ==
    lastOp.op = "exists" =>
        LET sk == _toStorageKey(lastOp.key)
            g == get(lastOp.before, lastOp.key, now).value
        IN  /\ ret.bool = Truthy(g)
            /\ (/\ hasItem(lastOp.before, sk)
                /\ getItem(lastOp.before, sk).options.expires > now
                /\ ~Truthy(getItem(lastOp.before, sk).value))
               => (g = getItem(lastOp.before, sk).value /\ ret.bool = FALSE)

\* exists was asked about an entry that holds zero and expires later
ExistsSemanticsWitness ==
    /\ lastOp.op = "exists"
    /\ hasItem(lastOp.before, _toStorageKey(lastOp.key))
    /\ getItem(lastOp.before, _toStorageKey(lastOp.key)).value = Scalar("zero")
    /\ getItem(lastOp.before, _toStorageKey(lastOp.key)).options.expires = 2 * MsPerSec
    /\ now < 2 * MsPerSec
    /\ ret.bool = FALSE
    /\ store = lastOp.before

\* C12 (lazy deletion on read): a get(k) that finds an entry whose expiration
\* time is <= now returns absent, and when it returns the backend no longer
\* holds the storage key of k and the tag index is what it was less the first
\* occurrence of that key in the first tag list that held it.
LazyDeletion ==
    LET sk == _toStorageKey(lastOp.key)
        m == TagIndex(lastOp.before)
        m2 == TagIndex(store)
    IN  (/\ lastOp.op = "get"
         /\ hasItem(lastOp.before, sk)
         /\ getItem(lastOp.before, sk).options.expires <= now)
        => /\ ret.value = Null
           /\ ~hasItem(store, sk)
           /\ Holders(m, sk) = {} => m2 = m
           /\ Holders(m, sk) # {} =>
                 LET i == Least(Holders(m, sk))
                     p == Least({q \in 1..Len(m[i].keys) : m[i].keys[q] = sk})
                 IN  /\ Len(m2) = Len(m)
                     /\ \A j \in 1..Len(m) : m2[j].tag = m[j].tag
                     /\ \A j \in 1..Len(m) : j # i => m2[j].keys = m[j].keys
                     /\ Without(m2[i].keys, m[i].keys, p)

\* get found an expired entry that both tags listed, the first of them twice
LazyDeletionWitness ==
    /\ lastOp.op = "get"
    /\ hasItem(lastOp.before, _toStorageKey(lastOp.key))
    /\ getItem(lastOp.before, _toStorageKey(lastOp.key)).options.expires <= now
    /\ Cardinality(Holders(TagIndex(lastOp.before), _toStorageKey(lastOp.key))) = 2
    /\ Len(TagIndex(lastOp.before)[1].keys) = 2
    /\ Len(TagIndex(store)[1].keys) = 1
    /\ ret.value = Null

\* the backend contents s hold, under storage key sk, a record whose
\* expiration time has come at time t
Expired(s, sk, t) == hasItem(s, sk) /\ getItem(s, sk).options.expires <= t

\* C13 (expired entries are absent): no get, exists or getTagData returns or
\* reports the value of an entry whose expiration time is <= now, although
\* the backend still held the entry when the call was made.
LogicallyAbsent ==
    /\ (lastOp.op = "get" /\ Expired(lastOp.before, _toStorageKey(lastOp.key), now))
       => ret.value = Null
    /\ (lastOp.op = "exists" /\ Expired(lastOp.before, _toStorageKey(lastOp.key), now))
       => ret.bool = FALSE
    /\ lastOp.op = "getTagData"
       => \A i \in 1..Len(ret.data) :
             ~Expired(lastOp.before, _toStorageKey(ret.data[i].key), now)

\* getTagData was called on a tag that listed an expired entry and one that
\* had not expired, and returned the second only
LogicallyAbsentWitness ==
    /\ lastOp.op = "getTagData"
    /\ Len(ret.data) = 1
    /\ \E i \in 1..Len(Listed(lastOp.before, lastOp.tag)) :
          /\ Expired(lastOp.before, Listed(lastOp.before, lastOp.tag)[i], now)
          /\ Truthy(getItem(lastOp.before, Listed(lastOp.before, lastOp.tag)[i]).value)
    /\ ~Expired(lastOp.before, _toStorageKey(ret.data[1].key), now)

\* C14 (tag index membership): with callers using non-reserved keys only,
\* whenever the tag index lists a storage key under tag t and the backend
\* holds an entry under that key, the set that wrote the entry carried tag t;
\* so getTagData(t) returns no key whose entry was written without tag t.
TagMembership ==
    /\ \A tg \in ExpTags, k \in ExpKeys :
          (_toStorageKey(k) \in Range(Listed(store, tg)) /\ hasItem(store, _toStorageKey(k)))
          => lastSet[k].tag = tg
    /\ lastOp.op = "getTagData"
       => \A i \in 1..Len(ret.data) : lastSet[ret.data[i].key].tag = lastOp.tag

\* the tag index entry of backend contents s is missing or is not a mapping
Malformed(s) ==
    \/ ~hasItem(s, _toStorageKey(_tagsStorageKey))
    \/ getItem(s, _toStorageKey(_tagsStorageKey)).value.t # "map"

\* C15 (malformed tag state): a call made while the tag index entry is missing
\* or is not a mapping raises no error and acts as on an empty index: a tagged
\* set leaves an index that lists its key alone, getTagData returns nothing,
\* remove drops the record only, removeTag changes nothing.
MalformedNeverFatal ==
    [][Malformed(store) =>
         /\ ~lastOp'.threw
         /\ (lastOp'.op = "set" /\ lastOp'.options.tag # "" /\ ~_isSystemKey(lastOp'.key))
            => TagIndex(store') = <<[tag |-> lastOp'.options.tag,
                                     keys |-> <<_toStorageKey(lastOp'.key)>>]>>
         /\ lastOp'.op = "getTagData" => ret'.data = <<>>
         /\ lastOp'.op = "remove" => store' = removeItem(store, _toStorageKey(lastOp'.key))
         /\ lastOp'.op = "removeTag" => store' = store]_vars

\* C16 (bounded tag recursion): a set with a tag on a non-reserved key makes
\* exactly one nested set, on the reserved key and without options, and that
\* set makes none; a set on the reserved key makes no nested set whatever its
\* options; the storage key of the reserved key is in no tag list.
BoundedTagRecursion ==
    /\ (lastOp.op = "set" /\ lastOp.options.tag # "" /\ ~_isSystemKey(lastOp.key))
       => lastOp.calls = <<[key |-> _tagsStorageKey, options |-> NoOptions]>>
    /\ (lastOp.op = "set" /\ _isSystemKey(lastOp.key)) => lastOp.calls = <<>>
    /\ \A i \in 1..Len(TagIndex(store)) :
          _toStorageKey(_tagsStorageKey) \notin Range(TagIndex(store)[i].keys)

\* C17 (the tag index outlives the entries): with callers using non-reserved
\* keys only, the tag index entry is always stored with the never expiration,
\* whatever expires and maxAge the calls carried, is never found expired, and
\* is still there, unchanged or rewritten, after every read that found it.
IndexNeverExpires ==
    LET index == _toStorageKey(_tagsStorageKey)
    IN  /\ hasItem(store, index)
           => /\ getItem(store, index).options = _toStorageOptions(_defaultOptions, now)
              /\ getItem(store, index).options.expires = MAX_VALUE
              /\ ~Expired(store, index, now)
        /\ (lastOp.op \in {"get", "exists", "getTagData"} /\ hasItem(lastOp.before, index))
           => hasItem(store, index)

\* a read found an expired entry that the index lists, next to the index
\* written by the tagged set that stored that entry for two seconds
IndexNeverExpiresWitness ==
    /\ lastOp.op = "getTagData"
    /\ Expired(lastOp.before, _toStorageKey("a"), now)
    /\ getItem(lastOp.before, _toStorageKey("a")).options.expires = 2 * MsPerSec
    /\ _toStorageKey("a") \in Range(Listed(lastOp.before, lastOp.tag))
    /\ hasItem(store, _toStorageKey(_tagsStorageKey))
    /\ Stored(_tagsStorageKey).options.expires = MAX_VALUE

\* the step is one of those that may change what get(k) returns: a set or
\* remove of k, a removeTag of a tag that lists k, a removeAll, or the clock
\* reaching the expiration time of k
Touches(k) ==
    \/ lastOp'.op \in {"set", "remove"} /\ lastOp'.key = k
    \/ lastOp'.op = "removeTag" /\ _toStorageKey(k) \in Range(Listed(store, lastOp'.tag))
    \/ lastOp'.op = "removeAll"
    \/ Expired(store, _toStorageKey(k), now') /\ ~Expired(store, _toStorageKey(k), now)

\* C18 (key isolation): for every caller key k, the reserved key and "_tags"
\* included, what get(k) returns is the same before and after every step but
\* a set or remove of k itself, a removeTag of a tag listing k, a removeAll
\* and the expiry of k; so a set or remove of another key never changes it.
KeyIsolation ==
    [][\A k \in SharedKeys :
          ~Touches(k) => get(store', k, now').value = get(store, k, now).value]_vars

\* C19 (remove clears a single-tag key): when every set of key k so far, one
\* or several, carried the same tag t, then after remove(k) the tag index no
\* longer lists the storage key of k under t.
RemoveClearsSingleTag ==
    \A tg \in ExpTags :
        (lastOp.op = "remove" /\ lastSet[lastOp.key].sole = tg)
        => _toStorageKey(lastOp.key) \notin Range(Listed(store, tg))

\* no record that tag lists in backend contents s has expired at time t (so
\* when the tag is unknown)
NoneExpired(s, tag, t) ==
    \A i \in 1..Len(Listed(s, tag)) : ~Expired(s, Listed(s, tag)[i], t)

\* C20 (reads leave the backend alone): a get(k) or exists(k) on a key whose
\* entry is absent or unexpired, and a getTagData(t) when t is unknown or no
\* entry listed under t has expired, leave every backend entry as it was.
ReadsChangeNothing ==
    /\ (lastOp.op \in {"get", "exists"} /\ ~Expired(lastOp.before, _toStorageKey(lastOp.key), now))
       => store = lastOp.before
    /\ (lastOp.op = "getTagData" /\ NoneExpired(lastOp.before, lastOp.tag, now))
       => store = lastOp.before

\* C20 as the code has it: getTagData leaves the backend as it was when, in
\* addition, the tag index entry itself is absent or unexpired.
ReadsChangeNothingAmended ==
    /\ (lastOp.op \in {"get", "exists"} /\ ~Expired(lastOp.before, _toStorageKey(lastOp.key), now))
       => store = lastOp.before
    /\ (/\ lastOp.op = "getTagData"
        /\ ~Expired(lastOp.before, _toStorageKey(_tagsStorageKey), now)
        /\ NoneExpired(lastOp.before, lastOp.tag, now))
       => store = lastOp.before

\* getTagData returned an entry that expires a second later, the backend
\* holding an expired entry that the tag does not list
ReadsChangeNothingWitness ==
    /\ lastOp.op = "getTagData"
    /\ Len(ret.data) = 1
    /\ getItem(lastOp.before, _toStorageKey(ret.data[1].key)).options.expires = now + MsPerSec
    /\ \E k \in SharedKeys : Expired(lastOp.before, _toStorageKey(k), now)
    /\ NoneExpired(lastOp.before, lastOp.tag, now)
    /\ store = lastOp.before

====
